---------------------------- MODULE Spec2Model ----------------------------
(***************************************************************************)
(* zod-mongoose: translation of a zod schema tree into a mongoose schema   *)
(* definition (src/src/index.ts), the zod extension that tags the zod      *)
(* classes and augments schema instances (src/unnamed/part_000, the        *)
(* extension and static-names assertion sources).                          *)
(*                                                                         *)
(* Schema nodes live in a heap (a sequence of records); a node refers to   *)
(* its inner/element/option nodes by heap index, 0 standing for JavaScript *)
(* undefined.  An optional JavaScript value is a sequence of length 0      *)
(* (undefined / null) or 1 (the value).                                    *)
(***************************************************************************)
EXTENDS Naturals, Sequences, FiniteSets

VARIABLES
    zod_extended,   \* part_000:117  the module-level guard of extendZod
    protoType,      \* class -> __zm_type on its prototype ("" when absent)
    protoUnique,    \* class -> the unique() function on its prototype (0: none,
                    \*          k: the closure created by the k-th call of extendZod)
    protoSparse,    \* class -> the sparse() function on its prototype, likewise
    extendCalls,    \* number of calls of extendZod made so far
    heap,           \* the schema nodes built so far
    lastRoot,       \* the shape of the root object, when the latest call was
                    \*   zodSchemaRaw(z.object(shape)); <<>> otherwise
    result          \* what that call returned or threw

vars == <<zod_extended, protoType, protoUnique, protoSparse, extendCalls,
          heap, lastRoot, result>>

---------------------------------------------------------------------------
(* Bounds of the model.                                                    *)

\* nodes in the heap under the general specification
MaxNodes == 2
\* nodes in the heap under the wrapper-chain specification
MaxChainNodes == 3
\* nodes in the heap under the wrapper specification
MaxWrapNodes == 3
\* nodes in the heap under the refinement specification
MaxRefineNodes == 4
\* nodes in the heap under the extension specification
MaxExtendNodes == 1
\* nodes in the heap under the identifier specification
MaxIdNodes == 3
\* nodes in the heap under the pipe specification
MaxPipeNodes == 3
\* nodes in the heap under the marking specification
MaxMarkNodes == 3
\* calls of extendZod
MaxExtendCalls == 2
\* the length limit a string node may be built with
MaxLenVal == 2

---------------------------------------------------------------------------
(* Optional values.                                                        *)

Undef == <<>>
Some(x) == <<x>>
IsDef(o) == o # <<>>
Val(o) == o[1]
\* JavaScript a || b on optional object values
OrElse(a, b) == IF IsDef(a) THEN a ELSE b

---------------------------------------------------------------------------
(* The zod classes and what extendZod installs on them.                    *)

\* part_000:168-185: the __zm_type key given to each class prototype
TypesMap ==
    << <<"String", "ZodString">>, <<"Number", "ZodNumber">>,
       <<"Object", "ZodObject">>, <<"Array", "ZodArray">>,
       <<"Boolean", "ZodBoolean">>, <<"Enum", "ZodEnum">>,
       <<"Date", "ZodDate">>, <<"Default", "ZodDefault">>,
       <<"Optional", "ZodOptional">>, <<"Nullable", "ZodNullable">>,
       <<"Union", "ZodUnion">>, <<"Any", "ZodAny">>,
       <<"Map", "ZodMap">>, <<"Record", "ZodRecord">>,
       <<"Effects", "ZodTransform">>, <<"Pipe", "ZodPipe">> >>

\* part_000:149
UNIQUE_SUPPORT_LIST == <<"ZodString", "ZodNumber", "ZodDate">>

\* a zod class extendZod gives no tag (z.null()), besides those of TypesMap
ZodClasses == {TypesMap[i][2] : i \in 1..Len(TypesMap)} \cup {"ZodNull"}

\* zod's _def.type / instance.type of a class
DefType(cls) ==
    CASE cls = "ZodString" -> "string"
      [] cls = "ZodNumber" -> "number"
      [] cls = "ZodDate" -> "date"
      [] cls = "ZodBoolean" -> "boolean"
      [] cls = "ZodEnum" -> "enum"
      [] cls = "ZodObject" -> "object"
      [] cls = "ZodArray" -> "array"
      [] cls = "ZodDefault" -> "default"
      [] cls = "ZodOptional" -> "optional"
      [] cls = "ZodNullable" -> "nullable"
      [] cls = "ZodUnion" -> "union"
      [] cls = "ZodAny" -> "any"
      [] cls = "ZodMap" -> "map"
      [] cls = "ZodRecord" -> "record"
      [] cls = "ZodTransform" -> "transform"
      [] cls = "ZodPipe" -> "pipe"
      [] OTHER -> "null"

---------------------------------------------------------------------------
(* Schema nodes.                                                           *)

\* a freshly constructed instance of class cls: no own extension property
BlankNode(cls) ==
    [ cls |-> cls,
      own_type |-> Undef,        \* own __zm_type (zId, zUUID)
      own_methods |-> FALSE,     \* own unique/sparse/ref/refPath (zId, zUUID)
      enhanced |-> FALSE,        \* __zm_enhanced
      wraps |-> 0,               \* refine overrides installed on the instance
      unique |-> Undef,          \* __zm_unique
      sparse |-> Undef,          \* __zm_sparse
      ref |-> Undef,             \* __zm_ref
      refPath |-> Undef,         \* __zm_refPath
      checks |-> <<>>,           \* _def.checks
      minimum |-> Undef,         \* minLength / minValue
      maximum |-> Undef,         \* maxLength / maxValue
      values |-> <<>>,           \* options of an enum
      innerType |-> 0,           \* _def.innerType
      defaultValue |-> Undef,    \* _def.defaultValue
      element |-> 0,             \* element of an array
      valueType |-> 0,           \* valueType of a map or record
      options |-> <<>>,          \* _def.options of a union
      shape |-> <<>>,            \* shape of an object: <<key, node>> pairs
      in |-> 0,                  \* _def.in of a pipe
      out |-> 0 ]                \* _def.out of a pipe

\* a check of _def.checks.  A custom check (zod's refine) is a schema
\* instance and exposes .def; zod's own min/max checks expose no .def.
CustomCheck(fn, error) ==
    [ ctype |-> "custom", fn |-> fn, error |-> error, zm |-> Undef ]
OtherCheck(name) ==
    [ ctype |-> name, fn |-> "", error |-> Undef, zm |-> Undef ]

\* zm.EffectValidator
Validator(fn, message) == [ validator |-> fn, message |-> message ]

---------------------------------------------------------------------------
(* The zod builders the schemas are made with (the zod library, as the     *)
(* sources use it).                                                        *)

\* the checks zod records for min/max constraints
BoundChecks(min, max) ==
    (IF IsDef(min) THEN <<OtherCheck("min")>> ELSE <<>>)
    \o (IF IsDef(max) THEN <<OtherCheck("max")>> ELSE <<>>)

\* z.string(), z.string().min(a), z.string().max(b), z.string().min(a).max(b)
zString(min, max) ==
    [BlankNode("ZodString") EXCEPT !.minimum = min, !.maximum = max,
                                   !.checks = BoundChecks(min, max)]
\* z.number() with optional .min(a) / .max(b)
zNumber(min, max) ==
    [BlankNode("ZodNumber") EXCEPT !.minimum = min, !.maximum = max,
                                   !.checks = BoundChecks(min, max)]
\* z.enum(values)
zEnum(values) == [BlankNode("ZodEnum") EXCEPT !.values = values]
\* x.optional(), x.nullable(), x.default(d)
zOptional(x) == [BlankNode("ZodOptional") EXCEPT !.innerType = x]
zNullable(x) == [BlankNode("ZodNullable") EXCEPT !.innerType = x]
zDefault(x, d) ==
    [BlankNode("ZodDefault") EXCEPT !.innerType = x, !.defaultValue = Some(d)]
\* z.array(x), z.map(k, x) / z.record(k, x), z.union(options), z.object(shape)
zArray(x) == [BlankNode("ZodArray") EXCEPT !.element = x]
zMap(cls, x) == [BlankNode(cls) EXCEPT !.valueType = x]
zUnion(options) == [BlankNode("ZodUnion") EXCEPT !.options = options]
zObject(shape) == [BlankNode("ZodObject") EXCEPT !.shape = shape]
\* a.pipe(b); x.transform(f) is x.pipe(z.transform(f)) and z.preprocess(f, x)
\* is z.transform(f).pipe(x)
zPipe(a, b) == [BlankNode("ZodPipe") EXCEPT !.in = a, !.out = b]

\* zod's refine params: undefined, a string, or an object with a message;
\* zod keeps the message as the check's error
OptsMessage(opts) == IF opts = Undef THEN Undef ELSE Some(Val(opts)[2])

\* zod's own refine: a new instance of the same class with the same _def and
\* one more check, a custom one; own properties of n are not carried over
zodRefine(n, check, opts) ==
    [BlankNode(n.cls) EXCEPT
        !.checks = Append(n.checks, CustomCheck(check, OptsMessage(opts))),
        !.minimum = n.minimum, !.maximum = n.maximum, !.values = n.values,
        !.innerType = n.innerType, !.defaultValue = n.defaultValue,
        !.element = n.element, !.valueType = n.valueType,
        !.options = n.options, !.shape = n.shape, !.in = n.in, !.out = n.out]

\* part_000:254-288  zId(ref): a union instance given its own tag, reference
\* and methods (its two options are never read through the tag and are not
\* kept in the heap)
zId(ref) ==
    [BlankNode("ZodUnion") EXCEPT !.own_type = Some("ObjectId"), !.ref = ref,
                                  !.own_methods = TRUE]
\* part_000:297-328
zUUID(ref) ==
    [BlankNode("ZodUnion") EXCEPT !.own_type = Some("UUID"), !.ref = ref,
                                  !.own_methods = TRUE]

---------------------------------------------------------------------------
(* The type classifier.                                                    *)

\* f.__zm_type as JavaScript reads it: the own property, else the
\* prototype's; "" when the instance is undefined or carries none
zmType(h, f) ==
    IF f = 0 THEN ""
    ELSE IF IsDef(h[f].own_type) THEN Val(h[f].own_type)
    ELSE protoType[h[f].cls]

\* part_000:29-89  zmAssert.string, .number, ... (kind is the tag compared)
zmAssert(kind, h, f) ==
    IF kind = "MapOrRecord"
    THEN zmType(h, f) = "Map" \/ zmType(h, f) = "Record"
    ELSE zmType(h, f) = kind

\* zmAssert.objectId / zmAssert.uuid: the identifier kinds, recognised by
\* the own tag zId / zUUID set (part_000:264, 304)
zmAssertId(kind, h, f) == zmType(h, f) = kind

---------------------------------------------------------------------------
(* Metadata augmentation.                                                  *)

\* part_000:196-245  what enhanceZodInstance does to an instance: every zod
\* instance has a refine function, so the override is installed with the mark
enhanceZodInstance_nomark(n) ==
    [n EXCEPT !.enhanced = TRUE, !.wraps = @ + 1]

enhanceZodInstance(n) ==
    IF n.enhanced THEN n
    ELSE [n EXCEPT !.enhanced = TRUE, !.wraps = @ + 1]

---------------------------------------------------------------------------
(* The translator: results.                                                *)

\* parseField's null
Null == [k |-> "null"]
\* a thrown Error
Throw(msg) == [k |-> "throw", msg |-> msg]
\* the map parseObject returns: <<key, descriptor>> pairs in insertion order
ObjectMap(fields) == [k |-> "object", fields |-> fields]
\* a translation's outcome d and the set e of instances it passed to
\* enhanceZodInstance
R(d, e) == [d |-> d, e |-> e]

IsThrow(d) == d.k = "throw"
IsNull(d) == d.k = "null"
IsDesc(d) == d.k = "desc"
IsObjectMap(d) == d.k = "object"

\* index.ts:86-126
RECURSIVE extractFrom(_, _)
extractFrom(checks, i) ==
    IF i > Len(checks) THEN Undef
    ELSE LET check == checks[i] IN
         IF check.ctype = "custom" /\ IsDef(check.zm) THEN check.zm
         ELSE IF check.ctype = "custom" /\ check.fn # ""
         THEN Some(Validator(check.fn,
                             IF IsDef(check.error) THEN check.error
                             ELSE Some("Validation failed")))
         ELSE extractFrom(checks, i + 1)

extractValidationFromChecks_last(checks) ==
    IF Len(checks) = 0 THEN Undef
    ELSE LET check == checks[Len(checks)] IN
         IF check.ctype = "custom" /\ IsDef(check.zm) THEN check.zm ELSE Undef

extractValidationFromChecks(checks) ==
    IF Len(checks) = 0 THEN Undef ELSE extractFrom(checks, 1)

---------------------------------------------------------------------------
(* The translator: leaf descriptors.                                       *)

\* index.ts:344-364
parseNumber_dropmax(field, required, def, unique, validate, sparse) ==
    [ k |-> "desc", type |-> "Number", default |-> def,
      min |-> field.minimum,
      max |-> IF required THEN field.maximum ELSE Undef,
      required |-> required, unique |-> unique, sparse |-> sparse,
      validate |-> validate ]

parseNumber(field, required, def, unique, validate, sparse) ==
    [ k |-> "desc", type |-> "Number", default |-> def,
      min |-> field.minimum, max |-> field.maximum,
      required |-> required, unique |-> unique, sparse |-> sparse,
      validate |-> validate ]

\* index.ts:366-386
parseString_dropmax(field, required, def, unique, validate, sparse) ==
    [ k |-> "desc", type |-> "String", default |-> def, required |-> required,
      minLength |-> field.minimum,
      maxLength |-> IF required THEN field.maximum ELSE Undef,
      unique |-> unique, sparse |-> sparse, validate |-> validate ]

parseString(field, required, def, unique, validate, sparse) ==
    [ k |-> "desc", type |-> "String", default |-> def, required |-> required,
      minLength |-> field.minimum, maxLength |-> field.maximum,
      unique |-> unique, sparse |-> sparse, validate |-> validate ]

\* index.ts:388-401
parseEnum(values, required, def) ==
    [ k |-> "desc", type |-> "String", unique |-> FALSE, sparse |-> FALSE,
      default |-> def, enum |-> values, required |-> required ]

\* index.ts:403-409
parseBoolean(required, def) ==
    [ k |-> "desc", type |-> "Boolean", default |-> def, required |-> required ]

\* index.ts:411-428
parseDate(required, def, validate, unique, sparse) ==
    [ k |-> "desc", type |-> "Date", default |-> def, required |-> required,
      unique |-> unique, sparse |-> sparse, validate |-> validate ]

\* a variant of OrFalse in which undefined becomes true
OrFalse_true(o) == IF IsDef(o) THEN Val(o) ELSE TRUE

\* a parameter declared "= false": undefined becomes false
OrFalse(o) == IF IsDef(o) THEN Val(o) ELSE FALSE

\* `if (ref) output.ref = ref`: the property is set for a non-empty string
IfTruthy(o) == IF IsDef(o) /\ Val(o) # "" THEN o ELSE Undef

\* index.ts:430-447
parseObjectId(required, ref, unique, refPath, sparse) ==
    [ k |-> "desc", type |-> "ObjectId", required |-> required,
      unique |-> OrFalse(unique), sparse |-> OrFalse(sparse),
      ref |-> IfTruthy(ref), refPath |-> IfTruthy(refPath) ]

\* index.ts:482-498
parseUUID(required, ref, unique, refPath, sparse) ==
    [ k |-> "desc", type |-> "UUID", required |-> required,
      unique |-> OrFalse(unique), sparse |-> OrFalse(sparse),
      ref |-> IfTruthy(ref), refPath |-> IfTruthy(refPath) ]

\* index.ts:500-506
parseMixed(required, def) ==
    [ k |-> "desc", type |-> "Mixed", default |-> def, required |-> required ]

---------------------------------------------------------------------------
(* The translator: recursion over the schema tree.                         *)

RECURSIVE parseObject(_, _), parseField(_, _, _, _, _)

\* a variant of parseArray that hands the array's own required flag down to
\* its element
parseArray_inheritRequired(h, required, element, def, elementValidation) ==
    LET innerType == parseField(h, element, required, Undef, elementValidation) IN
    IF IsThrow(innerType.d) THEN innerType
    ELSE IF IsNull(innerType.d)
    THEN R(Throw("Unsupported array type"), innerType.e)
    ELSE R([ k |-> "desc", type |-> "Array", items |-> <<innerType.d>>,
             default |-> def, required |-> required ], innerType.e)

\* index.ts:449-463  (its result carries the instances the element's
\* translation enhanced)
parseArray(h, required, element, def, elementValidation) ==
    LET innerType == parseField(h, element, TRUE, Undef, elementValidation) IN
    IF IsThrow(innerType.d) THEN innerType
    ELSE IF IsNull(innerType.d)
    THEN R(Throw("Unsupported array type"), innerType.e)
    ELSE R([ k |-> "desc", type |-> "Array", items |-> <<innerType.d>>,
             default |-> def, required |-> required ], innerType.e)

\* a variant of parseMap that hands its own context down to the value type
parseMap_inheritContext(h, required, valueType, def) ==
    LET pointer == parseField(h, valueType, required, def, Undef) IN
    IF IsThrow(pointer.d) THEN pointer
    ELSE IF IsNull(pointer.d)
    THEN R(Throw("Unsupported map value type"), pointer.e)
    ELSE R([ k |-> "desc", type |-> "Map", of |-> pointer.d,
             default |-> def, required |-> required ], pointer.e)

\* a variant of parseMap that answers a Mixed map instead of throwing when the
\* value type has no translation
parseMap_bestEffort(h, required, valueType, def) ==
    LET pointer == parseField(h, valueType, TRUE, Undef, Undef) IN
    IF IsThrow(pointer.d) THEN pointer
    ELSE R([ k |-> "desc", type |-> "Map",
             of |-> IF IsNull(pointer.d) THEN parseMixed(TRUE, Undef)
                    ELSE pointer.d,
             default |-> def, required |-> required ], pointer.e)

\* index.ts:465-480
parseMap(h, required, valueType, def) ==
    LET pointer == parseField(h, valueType, TRUE, Undef, Undef) IN
    IF IsThrow(pointer.d) THEN pointer
    ELSE IF IsNull(pointer.d)
    THEN R(Throw("Unsupported map value type"), pointer.e)
    ELSE R([ k |-> "desc", type |-> "Map", of |-> pointer.d,
             default |-> def, required |-> required ], pointer.e)

\* index.ts:156-162
fieldObjectId(h, field, required) ==
    parseObjectId(required, h[field].ref, h[field].unique,
                  h[field].refPath, h[field].sparse)

\* index.ts:164-170  (sparse is read from __zm_unique)
fieldUUID(h, field, required) ==
    parseUUID(required, h[field].ref, h[field].unique,
              h[field].refPath, h[field].unique)

\* index.ts:176-191
fieldNumber(h, field, required, def, refinement) ==
    LET isUnique == OrFalse(h[field].unique)
        isSparse == OrFalse(h[field].sparse)
        validation == extractValidationFromChecks(h[field].checks)
    IN  parseNumber(h[field], required, def, isUnique,
                    OrElse(validation, refinement), isSparse)

\* index.ts:193-208
fieldString(h, field, required, def, refinement) ==
    LET isUnique == OrFalse(h[field].unique)
        isSparse == OrFalse(h[field].sparse)
        validation == extractValidationFromChecks(h[field].checks)
    IN  parseString(h[field], required, def, isUnique,
                    OrElse(validation, refinement), isSparse)

\* index.ts:218-232
fieldDate(h, field, required, def, refinement) ==
    LET isUnique == OrFalse(h[field].unique)
        isSparse == OrFalse(h[field].sparse)
        validation == extractValidationFromChecks(h[field].checks)
    IN  parseDate(required, def, OrElse(validation, refinement),
                  isUnique, isSparse)

\* index.ts:234-252
fieldArray(h, field, required, def) ==
    LET element == h[field].element
        elementValidation ==
            IF element # 0 THEN extractValidationFromChecks(h[element].checks)
            ELSE Undef
        arr == parseArray(h, required, element, def, elementValidation)
    IN  R(arr.d, (IF element # 0 THEN {element} ELSE {}) \cup arr.e)

\* index.ts:254-256
fieldDefault(h, field, required, def, refinement) ==
    parseField(h, h[field].innerType, required, h[field].defaultValue, Undef)

\* index.ts:258-260
fieldOptional_keepRequired(h, field, required, def, refinement) ==
    parseField(h, h[field].innerType, required, Undef, Undef)

fieldOptional(h, field, required, def, refinement) ==
    parseField(h, h[field].innerType, FALSE, Undef, Undef)

\* index.ts:262-268
fieldNullable(h, field, required, def, refinement) ==
    parseField(h, h[field].innerType, FALSE,
               IF IsDef(def) THEN def ELSE Some("null"), Undef)

\* a variant of the union rule that falls back on the second option when the
\* first one has no translation
fieldUnion_fallback(h, field) ==
    LET first == parseField(h, IF Len(h[field].options) = 0 THEN 0
                               ELSE h[field].options[1], TRUE, Undef, Undef)
    IN  IF IsNull(first.d) /\ Len(h[field].options) > 1
        THEN parseField(h, h[field].options[2], TRUE, Undef, Undef)
        ELSE first

\* index.ts:270-272
fieldUnion(h, field) ==
    parseField(h, IF Len(h[field].options) = 0 THEN 0 ELSE h[field].options[1],
               TRUE, Undef, Undef)

\* a variant of the pipe rule that takes the input side whatever the sides are
fieldPipe_inputOnly(h, field, required, def, refinement) ==
    parseField(h, h[field].in, required, def, refinement)

\* index.ts:287-305
fieldPipe(h, field, required, def, refinement) ==
    LET inputType == h[field].in
        outputType == h[field].out
        isPreprocess ==
            /\ inputType # 0
            /\ DefType(h[inputType].cls) = "transform"
            /\ outputType # 0
            /\ DefType(h[outputType].cls) # "transform"
    IN  IF isPreprocess
        THEN parseField(h, outputType, required, def, refinement)
        ELSE parseField(h, inputType, required, def, refinement)

\* index.ts:307-339  Inside the branch `def` is the node's _def (it shadows
\* the default provider), and that object is what is passed on as default.
fieldEffect(h, field, required, refinement) ==
    LET originalField == h[field].in
        unique == IF originalField # 0 THEN OrFalse(h[originalField].unique)
                  ELSE FALSE
        sparse == IF originalField # 0 THEN OrFalse(h[originalField].sparse)
                  ELSE FALSE
        deftype == DefType(h[field].cls)
        stamp(p) ==
            IF IsDesc(p.d)
            THEN R([x \in DOMAIN p.d \cup {"unique", "sparse"} |->
                      IF x = "unique" THEN unique
                      ELSE IF x = "sparse" THEN sparse ELSE p.d[x]], p.e)
            ELSE p
    IN  IF deftype \in {"string", "number", "date"}
        THEN stamp(parseField(h, IF originalField # 0 THEN originalField
                                 ELSE field,
                              required, Some("_def"), refinement))
        ELSE IF deftype \in {"pipe", "transform"}
        THEN stamp(parseField(h, originalField, required, Some("_def"),
                              refinement))
        ELSE R(Null, {})

\* index.ts:147-342
parseField(h, field, required, def, refinement) ==
    LET e0 == IF field = 0 THEN {} ELSE {field}
        with(r) == R(r.d, e0 \cup r.e)
    IN
    IF zmAssertId("ObjectId", h, field)
    THEN R(fieldObjectId(h, field, required), e0)
    ELSE IF zmAssertId("UUID", h, field)
    THEN R(fieldUUID(h, field, required), e0)
    ELSE IF zmAssert("Object", h, field)
    THEN with(parseObject(h, field))
    ELSE IF zmAssert("Number", h, field)
    THEN R(fieldNumber(h, field, required, def, refinement), e0)
    ELSE IF zmAssert("String", h, field)
    THEN R(fieldString(h, field, required, def, refinement), e0)
    ELSE IF zmAssert("Enum", h, field)
    THEN R(parseEnum(h[field].values, required, def), e0)
    ELSE IF zmAssert("Boolean", h, field)
    THEN R(parseBoolean(required, def), e0)
    ELSE IF zmAssert("Date", h, field)
    THEN R(fieldDate(h, field, required, def, refinement), e0)
    ELSE IF zmAssert("Array", h, field)
    THEN with(fieldArray(h, field, required, def))
    ELSE IF zmAssert("Default", h, field)
    THEN with(fieldDefault(h, field, required, def, refinement))
    ELSE IF zmAssert("Optional", h, field)
    THEN with(fieldOptional(h, field, required, def, refinement))
    ELSE IF zmAssert("Nullable", h, field)
    THEN with(fieldNullable(h, field, required, def, refinement))
    ELSE IF zmAssert("Union", h, field)
    THEN with(fieldUnion(h, field))
    ELSE IF zmAssert("Any", h, field)
    THEN R(parseMixed(required, def), e0)
    ELSE IF zmAssert("MapOrRecord", h, field)
    THEN with(parseMap(h, required, h[field].valueType, def))
    ELSE IF zmAssert("Pipe", h, field)
    THEN with(fieldPipe(h, field, required, def, refinement))
    ELSE IF zmAssert("Effects", h, field)
    THEN with(fieldEffect(h, field, required, refinement))
    ELSE R(Null, e0)

\* a variant of Put that places a new key in front
Put_prepend(fields, key, val) ==
    IF \E i \in 1..Len(fields) : fields[i][1] = key
    THEN [i \in 1..Len(fields) |->
            IF fields[i][1] = key THEN <<key, val>> ELSE fields[i]]
    ELSE <<(<<key, val>>)>> \o fields

\* object[key] = val on a JavaScript object kept as <<key, value>> pairs
Put(fields, key, val) ==
    IF \E i \in 1..Len(fields) : fields[i][1] = key
    THEN [i \in 1..Len(fields) |->
            IF fields[i][1] = key THEN <<key, val>> ELSE fields[i]]
    ELSE Append(fields, <<key, val>>)

\* index.ts:130-142  the loop of parseObject from shape entry i on, object
\* being the map built so far and e the instances enhanced so far
RECURSIVE parseObjectLoop(_, _, _, _, _)
parseObjectLoop(h, shape, i, object, e) ==
    IF i > Len(shape) THEN R(ObjectMap(object), e)
    ELSE
    LET key == shape[i][1]
        enhancedField == shape[i][2]
        e1 == e \cup {enhancedField}
    IN  IF zmAssert("Object", h, enhancedField)
        THEN LET sub == parseObject(h, enhancedField) IN
             IF IsThrow(sub.d) THEN R(sub.d, e1 \cup sub.e)
             ELSE parseObjectLoop(h, shape, i + 1, Put(object, key, sub.d),
                                  e1 \cup sub.e)
        ELSE LET f == parseField(h, enhancedField, TRUE, Undef, Undef) IN
             IF IsThrow(f.d) THEN R(f.d, e1 \cup f.e)
             ELSE IF IsNull(f.d)
             THEN R(Throw("Unsupported field type"), e1 \cup f.e)
             ELSE parseObjectLoop(h, shape, i + 1, Put(object, key, f.d),
                                  e1 \cup f.e)

\* index.ts:128-145
parseObject(h, obj) == parseObjectLoop(h, h[obj].shape, 1, <<>>, {})

\* index.ts:80-82  zodSchemaRaw(schema), schema being z.object(shape)
zodSchemaRaw(h, shape) == parseObject(Append(h, zObject(shape)), Len(h) + 1)

---------------------------------------------------------------------------
(* The refine override enhanceZodInstance installs.                        *)

\* a variant of the override that stores the validator record but copies no
\* attribute forward
refineOverride_nocopy(this, refined, check, opts) ==
    LET n == Len(refined.checks)
        r3 == IF n > 0 /\ refined.checks[n].ctype = "custom"
              THEN [refined EXCEPT !.checks[n].zm =
                        Some(Validator(check, OptsMessage(opts)))]
              ELSE refined
    IN  enhanceZodInstance(r3)

\* part_000:211-238  what one override does to the instance its original
\* refine returned, this being the instance refine was called on
refineOverride(this, refined, check, opts) ==
    LET message == OptsMessage(opts)
        r1 == IF IsDef(this.unique) THEN [refined EXCEPT !.unique = this.unique]
              ELSE refined
        r2 == IF IsDef(this.sparse) THEN [r1 EXCEPT !.sparse = this.sparse]
              ELSE r1
        n == Len(r2.checks)
        r3 == IF n > 0 /\ r2.checks[n].ctype = "custom"
              THEN [r2 EXCEPT !.checks[n].zm = Some(Validator(check, message))]
              ELSE r2
    IN  enhanceZodInstance(r3)

\* instance.refine(check, opts) on an instance with w overrides installed,
\* each calling the one below it and the lowest being zod's
RECURSIVE callRefine(_, _, _, _)
callRefine(this, w, check, opts) ==
    IF w = 0 THEN zodRefine(this, check, opts)
    ELSE refineOverride(this, callRefine(this, w - 1, check, opts), check, opts)

---------------------------------------------------------------------------
(* Inputs the operations are called with.                                  *)

Keys == <<"a", "b">>
\* <<min, max>> of a string or number: unconstrained, or both set
BoundsChoices == {<<Undef, Undef>>, <<Some(1), Some(MaxLenVal)>>}
EnumChoices == {<<"x", "y">>}
DefaultChoices == {"d1", "d2"}
RefChoices == {Undef, Some("Company")}
\* <<check, opts>> of a refine call: opts a string, an object with a
\* message, or absent
RefineChoices ==
    { <<"p1", Some(<<"string", "m1">>)>>,
      <<"p2", Some(<<"object", "m2">>)>>,
      <<"p2", Undef>> }

\* the instance the next builder call is made on: the latest one
Top == Len(heap)
Nodes == 1..Len(heap)

NoResult == [k |-> "none"]

ext == <<zod_extended, protoType, protoUnique, protoSparse, extendCalls>>

\* the latest call is no longer a translation
Forget == lastRoot' = <<>> /\ result' = NoResult

---------------------------------------------------------------------------
(* extendZod.                                                              *)

\* part_000:168-189  the tags after the loop over TypesMap
TaggedPrototypes(old) ==
    [c \in ZodClasses |->
        IF \E i \in 1..Len(TypesMap) : TypesMap[i][2] = c
        THEN TypesMap[CHOOSE i \in 1..Len(TypesMap) : TypesMap[i][2] = c][1]
        ELSE old[c]]

\* part_000:151-165  the methods after the loop over UNIQUE_SUPPORT_LIST,
\* fn being the closures this call creates
PatchedPrototypes(old, fn) ==
    [c \in ZodClasses |->
        IF \E i \in 1..Len(UNIQUE_SUPPORT_LIST) : UNIQUE_SUPPORT_LIST[i] = c
        THEN fn ELSE old[c]]

\* part_000:143-190 without the guard of line 145
ExtendZod_unguarded ==
    /\ extendCalls < MaxExtendCalls
    /\ extendCalls' = extendCalls + 1
    /\ zod_extended' = TRUE
    /\ protoUnique' = PatchedPrototypes(protoUnique, extendCalls + 1)
    /\ protoSparse' = PatchedPrototypes(protoSparse, extendCalls + 1)
    /\ protoType' = TaggedPrototypes(protoType)
    /\ Forget /\ UNCHANGED heap

\* part_000:143-190
ExtendZod ==
    /\ extendCalls < MaxExtendCalls
    /\ extendCalls' = extendCalls + 1
    /\ IF zod_extended
       THEN UNCHANGED <<zod_extended, protoUnique, protoSparse, protoType>>
       ELSE /\ zod_extended' = TRUE
            /\ protoUnique' = PatchedPrototypes(protoUnique, extendCalls + 1)
            /\ protoSparse' = PatchedPrototypes(protoSparse, extendCalls + 1)
            /\ protoType' = TaggedPrototypes(protoType)
    /\ Forget /\ UNCHANGED heap

---------------------------------------------------------------------------
(* Building schemas.  cap bounds the number of instances.                  *)

New(cap, n) ==
    /\ Len(heap) < cap
    /\ heap' = Append(heap, n)
    /\ Forget /\ UNCHANGED ext

ZString(cap) == \E b \in BoundsChoices : New(cap, zString(b[1], b[2]))
ZNumber(cap) == \E b \in BoundsChoices : New(cap, zNumber(b[1], b[2]))
ZDate(cap) == New(cap, BlankNode("ZodDate"))
ZBoolean(cap) == New(cap, BlankNode("ZodBoolean"))
ZEnum(cap) == \E values \in EnumChoices : New(cap, zEnum(values))
ZAny(cap) == New(cap, BlankNode("ZodAny"))
\* z.null(): a kind with no translation rule
ZNull(cap) == New(cap, BlankNode("ZodNull"))
\* z.transform(f)
ZTransform(cap) == New(cap, BlankNode("ZodTransform"))
ZId(cap) == \E ref \in RefChoices : New(cap, zId(ref))
ZUUID(cap) == \E ref \in RefChoices : New(cap, zUUID(ref))

ZOptional(cap) == Top > 0 /\ New(cap, zOptional(Top))
ZNullable(cap) == Top > 0 /\ New(cap, zNullable(Top))
ZDefault(cap) == Top > 0 /\ \E d \in DefaultChoices : New(cap, zDefault(Top, d))
ZArray(cap) == Top > 0 /\ New(cap, zArray(Top))
ZMap(cap) == Top > 0 /\ \E cls \in {"ZodMap", "ZodRecord"} : New(cap, zMap(cls, Top))
\* z.union([a, b]), one of the options being the latest instance
ZUnion(cap) ==
    /\ Top > 0
    /\ \E a \in Nodes, b \in Nodes :
          (a = Top \/ b = Top) /\ New(cap, zUnion(<<a, b>>))
\* a.pipe(b), one of the sides being the latest instance
ZPipe(cap) ==
    /\ Top > 0
    /\ \E a \in Nodes, b \in Nodes :
          (a = Top \/ b = Top) /\ a # b /\ New(cap, zPipe(a, b))
\* z.object({}), z.object({a: x}), z.object({b: x, a: y}), the latest
\* instance being a member
ZObject(cap) ==
    \/ New(cap, zObject(<<>>))
    \/ Top > 0 /\ New(cap, zObject(<< <<Keys[1], Top>> >>))
    \/ /\ Top > 0
       /\ \E x \in Nodes, y \in Nodes :
             /\ x = Top \/ y = Top
             /\ New(cap, zObject(<< <<Keys[2], x>>, <<Keys[1], y>> >>))

\* part_000:152-157 and 277-280  x.unique(arg) on the latest instance: the
\* prototype's method (it enhances) or the own method of zId / zUUID
Unique(args) ==
    /\ Top > 0
    /\ \E arg \in args :
          \/ /\ heap[Top].own_methods
             /\ heap' = [heap EXCEPT ![Top].unique = Some(arg)]
          \/ /\ ~heap[Top].own_methods
             /\ protoUnique[heap[Top].cls] # 0
             /\ heap' = [heap EXCEPT ![Top] =
                            enhanceZodInstance([@ EXCEPT !.unique = Some(arg)])]
    /\ Forget /\ UNCHANGED ext

\* part_000:159-164 and 282-285  x.sparse(arg)
Sparse(args) ==
    /\ Top > 0
    /\ \E arg \in args :
          \/ /\ heap[Top].own_methods
             /\ heap' = [heap EXCEPT ![Top].sparse = Some(arg)]
          \/ /\ ~heap[Top].own_methods
             /\ protoSparse[heap[Top].cls] # 0
             /\ heap' = [heap EXCEPT ![Top] =
                            enhanceZodInstance([@ EXCEPT !.sparse = Some(arg)])]
    /\ Forget /\ UNCHANGED ext

\* part_000:267-275  x.ref(r) and x.refPath(r) of zId / zUUID
SetRef ==
    /\ Top > 0
    /\ heap[Top].own_methods
    /\ heap' = [heap EXCEPT ![Top].ref = Some("Owner")]
    /\ Forget /\ UNCHANGED ext

SetRefPath ==
    /\ Top > 0
    /\ heap[Top].own_methods
    /\ heap' = [heap EXCEPT ![Top].refPath = Some("ownerModel")]
    /\ Forget /\ UNCHANGED ext

\* x.refine(check, opts) on the latest instance, a string, number or date:
\* zod's refine, or the override of part_000:208-241 when x is enhanced
Refine(cap) ==
    /\ Top > 0
    /\ heap[Top].cls \in {"ZodString", "ZodNumber", "ZodDate"}
    /\ \E c \in RefineChoices :
          New(cap, callRefine(heap[Top], heap[Top].wraps, c[1], c[2]))

\* the shapes zodSchemaRaw's argument is built with: {a: x} and
\* {a: x, b: y}, the latest instance being a member
RootShapes ==
    IF Top = 0 THEN {<<>>}
    ELSE {<< <<Keys[1], Top>> >>}
         \cup {<< <<Keys[1], t[1]>>, <<Keys[2], t[2]>> >> :
                 t \in {u \in Nodes \X Nodes : u[1] = Top \/ u[2] = Top}}

\* index.ts:80-82  zodSchemaRaw(z.object(shape)): its outcome, and the
\* instances it enhanced on the way (the root object is built for the call;
\* parseObject enhances the members, never the root)
Translate ==
    \E shape \in RootShapes :
       LET r == zodSchemaRaw(heap, shape) IN
       /\ result' = r.d
       /\ lastRoot' = shape
       /\ heap' = [i \in Nodes |->
                     IF i \in r.e THEN enhanceZodInstance(heap[i])
                     ELSE heap[i]]
       /\ UNCHANGED ext

---------------------------------------------------------------------------
(* Specifications.                                                         *)

NoPrototypes == [c \in ZodClasses |-> 0]

\* the module as loaded: nothing extended, nothing built
Init ==
    /\ zod_extended = FALSE
    /\ protoType = [c \in ZodClasses |-> ""]
    /\ protoUnique = NoPrototypes
    /\ protoSparse = NoPrototypes
    /\ extendCalls = 0
    /\ heap = <<>>
    /\ lastRoot = <<>>
    /\ result = NoResult

Leaf(cap) ==
    \/ ZString(cap) \/ ZNumber(cap) \/ ZDate(cap) \/ ZBoolean(cap)
    \/ ZEnum(cap) \/ ZAny(cap) \/ ZNull(cap) \/ ZTransform(cap)
    \/ ZId(cap) \/ ZUUID(cap)

Wrap(cap) ==
    \/ ZOptional(cap) \/ ZNullable(cap) \/ ZDefault(cap)

Compose(cap) ==
    \/ ZArray(cap) \/ ZMap(cap) \/ ZUnion(cap) \/ ZPipe(cap) \/ ZObject(cap)

Attribute ==
    \/ Unique(BOOLEAN) \/ Sparse(BOOLEAN) \/ SetRef \/ SetRefPath

Next ==
    \/ ExtendZod
    \/ Leaf(MaxNodes) \/ Wrap(MaxNodes) \/ Compose(MaxNodes)
    \/ Attribute \/ Refine(MaxNodes)
    \/ Translate

Spec == Init /\ [][Next]_vars

\* the state after the application's start-up call extendZod(z)
InitExtended ==
    /\ zod_extended = TRUE
    /\ protoType = TaggedPrototypes([c \in ZodClasses |-> ""])
    /\ protoUnique = PatchedPrototypes(NoPrototypes, 1)
    /\ protoSparse = PatchedPrototypes(NoPrototypes, 1)
    /\ extendCalls = 1
    /\ heap = <<>>
    /\ lastRoot = <<>>
    /\ result = NoResult

\* no translation has been made on the schemas built so far
Fresh == result = NoResult /\ \A i \in Nodes : ~heap[i].enhanced

\* A schema of wrappers and composites over plain leaves is built and then
\* translated.
NextChain ==
    \/ Fresh /\ Leaf(MaxChainNodes)
    \/ Fresh /\ Wrap(MaxChainNodes)
    \/ Fresh /\ Compose(MaxChainNodes)
    \/ Fresh /\ Translate

SpecChain == InitExtended /\ [][NextChain]_vars

\* One primitive or enum leaf is built and possibly marked unique / sparse,
\* chains of Optional / Nullable / Default wrappers are built around it, and
\* the whole is translated.
Building == result = NoResult

NextWrap ==
    \/ Building /\ Top = 0 /\ ZString(MaxWrapNodes)
    \/ Building /\ Top = 0 /\ ZNumber(MaxWrapNodes)
    \/ Building /\ Top = 0 /\ ZDate(MaxWrapNodes)
    \/ Building /\ Top = 0 /\ ZBoolean(MaxWrapNodes)
    \/ Building /\ Top = 0 /\ ZEnum(MaxWrapNodes)
    \/ Building /\ Unique(BOOLEAN)
    \/ Building /\ Sparse(BOOLEAN)
    \/ Building /\ Wrap(MaxWrapNodes)
    \/ Building /\ Translate

SpecWrap == InitExtended /\ [][NextWrap]_vars

\* A string is marked unique / sparse and refined, what derives from it is
\* wrapped in Optional and translated, in any order and any number of times.
NextRefine ==
    \/ Top = 0 /\ ZString(MaxRefineNodes)
    \/ Unique({TRUE}) \/ Sparse({TRUE}) \/ Refine(MaxRefineNodes)
    \/ ZOptional(MaxRefineNodes)
    \/ Translate

SpecRefine == InitExtended /\ [][NextRefine]_vars

\* extendZod called any number of times while primitives are built, marked
\* and translated.
NextExtend ==
    \/ ExtendZod
    \/ ZString(MaxExtendNodes) \/ ZDate(MaxExtendNodes)
    \/ Unique(BOOLEAN) \/ Sparse(BOOLEAN)
    \/ Translate

SpecExtend == Init /\ [][NextExtend]_vars

---------------------------------------------------------------------------
(* Reading a state: the last translation and the schema it was given.      *)

Translated == result # NoResult
Succeeded == Translated /\ IsObjectMap(result)

\* the indices of the root shape's entries
RootEntries == 1..Len(lastRoot)
RootKey(i) == lastRoot[i][1]
RootMember(i) == lastRoot[i][2]

\* the value the returned map holds under key
FieldFor(key) ==
    LET j == CHOOSE j \in 1..Len(result.fields) : result.fields[j][1] = key
    IN  result.fields[j][2]
HasField(key) == \E j \in 1..Len(result.fields) : result.fields[j][1] = key

WrapperClasses == {"ZodOptional", "ZodNullable", "ZodDefault"}
PrimitiveClasses == {"ZodString", "ZodNumber", "ZodDate", "ZodBoolean"}

\* the wrapper chain of n: n, its inner node, ... down to the first node
\* that is no Optional / Nullable / Default wrapper
RECURSIVE Chain(_, _)
Chain(h, n) ==
    IF h[n].cls \in WrapperClasses /\ ~IsDef(h[n].own_type)
    THEN <<n>> \o Chain(h, h[n].innerType)
    ELSE <<n>>

ChainLeaf(h, n) == Chain(h, n)[Len(Chain(h, n))]
\* the wrappers of the chain, outermost first
ChainWrappers(h, n) == SubSeq(Chain(h, n), 1, Len(Chain(h, n)) - 1)
ChainHas(h, n, cls) ==
    \E i \in 1..Len(ChainWrappers(h, n)) : h[ChainWrappers(h, n)[i]].cls = cls
\* the outermost wrapper of class cls in the chain
Outermost(h, n, cls) ==
    LET w == ChainWrappers(h, n)
        i == CHOOSE i \in 1..Len(w) :
                /\ h[w[i]].cls = cls
                /\ \A j \in 1..(i - 1) : h[w[j]].cls # cls
    IN  w[i]

\* the nodes a translation starting at n is bound to look at unless it fails
\* before: members, element, value, inner node, first option, chosen side
RECURSIVE Reach(_, _)
Reach(h, n) ==
    LET t == zmType(h, n) IN
    {n} \cup
    (IF t = "Object"
     THEN UNION {Reach(h, h[n].shape[i][2]) : i \in 1..Len(h[n].shape)}
     ELSE IF t = "Array" THEN Reach(h, h[n].element)
     ELSE IF t \in {"Default", "Optional", "Nullable"}
     THEN Reach(h, h[n].innerType)
     ELSE IF t = "Union" /\ Len(h[n].options) > 0
     THEN Reach(h, h[n].options[1])
     ELSE IF t \in {"Map", "Record"} THEN Reach(h, h[n].valueType)
     ELSE IF t = "Pipe"
     THEN (IF DefType(h[h[n].in].cls) = "transform"
              /\ DefType(h[h[n].out].cls) # "transform"
           THEN Reach(h, h[n].out) ELSE Reach(h, h[n].in))
     ELSE {})

RootReach == UNION {Reach(heap, RootMember(i)) : i \in RootEntries}

\* a descriptor tree holds no null, hole or thrown error
RECURSIVE NoHole(_)
NoHole(d) ==
    IF IsObjectMap(d)
    THEN \A j \in 1..Len(d.fields) : NoHole(d.fields[j][2])
    ELSE /\ IsDesc(d)
         /\ d.type = "Array" => NoHole(d.items[1])
         /\ d.type = "Map" => NoHole(d.of)

\* the contexts parseField is called with
Contexts == BOOLEAN \X {Undef, Some("d1")}

---------------------------------------------------------------------------
(* C1 - C4: Optional / Nullable / Default wrappers.                        *)

\* C1: after a successful translation, every member of the root object whose
\* wrapper chain holds an Optional wrapper, whatever the node at the end of
\* the chain, has a descriptor with required = false.  (The map an object
\* node translates to carries no required flag at all; the flag is asked of
\* field descriptors only.)
C1_OptionalYieldsNotRequired ==
    Succeeded =>
        \A i \in RootEntries :
            ChainHas(heap, RootMember(i), "ZodOptional") =>
                (IsDesc(FieldFor(RootKey(i))) =>
                    FieldFor(RootKey(i)).required = FALSE)

\* C2: after a successful translation, every member whose chain of Optional /
\* Nullable / Default wrappers around a primitive or enum leaf holds a Default
\* wrapper has, as default provider, the value of the outermost Default; and
\* a Default wrapper hands the required flag it was given to its inner node.
C2_DefaultPreserved ==
    Succeeded =>
        \A i \in RootEntries :
            LET m == RootMember(i) IN
            ChainHas(heap, m, "ZodDefault") =>
                /\ FieldFor(RootKey(i)).default =
                      heap[Outermost(heap, m, "ZodDefault")].defaultValue
                /\ \A n \in Nodes, required \in BOOLEAN :
                      heap[n].cls = "ZodDefault" =>
                          parseField(heap, n, required, Undef, Undef).d.required =
                          parseField(heap, heap[n].innerType, required,
                                     heap[n].defaultValue, Undef).d.required

\* C3: after a successful translation, every member whose wrapper chain holds
\* a Nullable wrapper and no Default wrapper has a default provider that
\* returns null.
C3_NullableDefaultsToNull ==
    Succeeded =>
        \A i \in RootEntries :
            LET m == RootMember(i) IN
            (ChainHas(heap, m, "ZodNullable") /\ ~ChainHas(heap, m, "ZodDefault")) =>
                FieldFor(RootKey(i)).default = Some("null")

\* C4: after a successful translation, the descriptor of a member that is a
\* chain of N >= 0 Optional / Nullable / Default wrappers around a primitive
\* or enum leaf P equals the translation of P alone in everything but
\* required and default: type, min / max, minLength / maxLength, enum,
\* unique, sparse (and validate).
C4_LeafConstraintsSurviveWrapping ==
    Succeeded =>
        \A i \in RootEntries :
            LET m == RootMember(i)
                P == ChainLeaf(heap, m)
                alone == parseField(heap, P, TRUE, Undef, Undef).d
                d == FieldFor(RootKey(i))
            IN  heap[P].cls \in PrimitiveClasses \cup {"ZodEnum"} =>
                    /\ IsDesc(d)
                    /\ [d EXCEPT !.required = alone.required,
                                 !.default = alone.default] = alone

\* C4 witness: a bounded unique string under two wrappers has been translated, and
\* its descriptor is not the leaf's own (required or default differ)
C4_Witness ==
    /\ Succeeded
    /\ \E i \in RootEntries :
          LET m == RootMember(i)
              P == ChainLeaf(heap, m)
          IN  /\ Len(ChainWrappers(heap, m)) >= 2
              /\ heap[P].cls = "ZodString"
              /\ IsDef(heap[P].maximum)
              /\ heap[P].unique = Some(TRUE)
              /\ FieldFor(RootKey(i)).maxLength = Some(MaxLenVal)
              /\ FieldFor(RootKey(i)).unique = TRUE
              /\ FieldFor(RootKey(i)) # parseField(heap, P, TRUE, Undef, Undef).d

---------------------------------------------------------------------------
(* C5: metadata of a refined string through Optional.                      *)

\* the record the refine override stored on the check the latest refine of
\* node n added (undefined when n does not come from an overridden refine)
StoredByRefine(h, n) ==
    IF Len(h[n].checks) > 0 /\ h[n].checks[Len(h[n].checks)].ctype = "custom"
    THEN h[n].checks[Len(h[n].checks)].zm
    ELSE Undef

\* C5: after a successful translation, a member Optional(r), r being the
\* string the overridden refine(p, m) returned for a string marked unique and
\* sparse, has the descriptor required = false, unique = true, sparse = true,
\* validate = {validator: p, message: m}.
C5_RefinedMetadataThroughOptional ==
    Succeeded =>
        \A i \in RootEntries :
            LET m == RootMember(i)
                r == heap[m].innerType
                d == FieldFor(RootKey(i))
            IN  ( /\ heap[m].cls = "ZodOptional"
                  /\ heap[r].cls = "ZodString"
                  /\ heap[r].unique = Some(TRUE)
                  /\ heap[r].sparse = Some(TRUE)
                  /\ IsDef(StoredByRefine(heap, r))
                  /\ IsDef(Val(StoredByRefine(heap, r)).message) )
                => /\ d.required = FALSE
                   /\ d.unique = TRUE
                   /\ d.sparse = TRUE
                   /\ d.validate = StoredByRefine(heap, r)

\* C5, the case of a single refinement: the same, when the refined string
\* carries no other custom check than the one refine(p, m) added.
C5_SingleRefinement ==
    Succeeded =>
        \A i \in RootEntries :
            LET m == RootMember(i)
                r == heap[m].innerType
                d == FieldFor(RootKey(i))
            IN  ( /\ heap[m].cls = "ZodOptional"
                  /\ heap[r].cls = "ZodString"
                  /\ heap[r].unique = Some(TRUE)
                  /\ heap[r].sparse = Some(TRUE)
                  /\ IsDef(StoredByRefine(heap, r))
                  /\ \A j \in 1..(Len(heap[r].checks) - 1) :
                        heap[r].checks[j].ctype # "custom" )
                => /\ d.required = FALSE
                   /\ d.unique = TRUE
                   /\ d.sparse = TRUE
                   /\ d.validate = StoredByRefine(heap, r)

---------------------------------------------------------------------------
(* C6 - C9: composites.                                                    *)

\* d is the map of an object with this shape: the same keys in the same
\* order, none twice, each value the translation of its member, and so on
\* inside the members that are objects (directly or under wrappers)
RECURSIVE KeysMirror(_, _, _)
KeysMirror(h, shape, d) ==
    /\ IsObjectMap(d)
    /\ Len(d.fields) = Len(shape)
    /\ \A i \in 1..Len(shape) :
          LET m == shape[i][2]
              v == d.fields[i][2]
              leaf == ChainLeaf(h, m)
          IN  /\ d.fields[i][1] = shape[i][1]
              /\ \A j \in 1..Len(shape) : j # i => d.fields[j][1] # d.fields[i][1]
              /\ v = IF zmAssert("Object", h, m) THEN parseObject(h, m).d
                     ELSE parseField(h, m, TRUE, Undef, Undef).d
              /\ zmAssert("Object", h, leaf) => KeysMirror(h, h[leaf].shape, v)

\* C6: the map a successful translation returns has exactly the keys of the
\* root shape, in declaration order, each with the translation of its member,
\* and so have the maps of the nested objects.
C6_ObjectKeysPreserved == Succeeded => KeysMirror(heap, lastRoot, result)

\* C6 witness: a two-key root with a nested two-key object was translated
C6_Witness ==
    /\ Succeeded
    /\ Len(lastRoot) = 2
    /\ \E i \in RootEntries :
          /\ heap[RootMember(i)].cls = "ZodObject"
          /\ Len(heap[RootMember(i)].shape) = 2
          /\ Len(FieldFor(RootKey(i)).fields) = 2

\* what an array node must translate to in context <<required, def>>
ArrayExpected(h, n, required, def) ==
    LET el == h[n].element IN
    [ k |-> "desc", type |-> "Array",
      items |-> <<parseField(h, el, TRUE, Undef,
                             extractValidationFromChecks(h[el].checks)).d>>,
      default |-> def, required |-> required ]

\* C7: an array node whose element translates yields {type: [e], default,
\* required}, e being the element's translation with required = true and no
\* default whatever the array's own context, required and default being the
\* array's own; for a string element e is a String descriptor with the
\* element's maxLength and required = true.
C7_ArrayOfRequiredElement ==
    /\ \A n \in Nodes, c \in Contexts :
          zmAssert("Array", heap, n) =>
              LET got == parseField(heap, n, c[1], c[2], Undef).d IN
              ~IsThrow(got) =>
                  /\ got = ArrayExpected(heap, n, c[1], c[2])
                  /\ zmAssert("String", heap, heap[n].element) =>
                        /\ got.items[1].type = "String"
                        /\ got.items[1].maxLength = heap[heap[n].element].maximum
                        /\ got.items[1].required = TRUE
                        /\ got.items[1].default = Undef
    /\ Succeeded =>
          \A i \in RootEntries :
              zmAssert("Array", heap, RootMember(i)) =>
                  FieldFor(RootKey(i)) =
                      ArrayExpected(heap, RootMember(i), TRUE, Undef)

\* C7 witness: an optional array of length-bounded strings was translated
C7_Witness ==
    /\ Succeeded
    /\ \E i \in RootEntries :
          LET m == RootMember(i)
              d == FieldFor(RootKey(i))
          IN  /\ heap[m].cls = "ZodOptional"
              /\ heap[heap[m].innerType].cls = "ZodArray"
              /\ heap[heap[heap[m].innerType].element].cls = "ZodString"
              /\ d.type = "Array"
              /\ d.required = FALSE
              /\ d.items[1].required = TRUE
              /\ d.items[1].maxLength = Some(MaxLenVal)

\* C8: a union translates, in every context, to the translation of its first
\* option alone and enhances nothing the first option's translation does not,
\* the same whatever the second option is; and a translation enhances no node
\* outside what members, elements, values, inner nodes and first options
\* lead to.
C8_UnionFirstOptionOnly ==
    /\ \A u \in Nodes, c \in Contexts :
          (zmAssert("Union", heap, u) /\ Len(heap[u].options) > 0) =>
              LET o1 == heap[u].options[1]
                  first == parseField(heap, o1, TRUE, Undef, Undef)
                  got == parseField(heap, u, c[1], c[2], Undef)
              IN  /\ got.d = first.d
                  /\ got.e = {u} \cup first.e
                  /\ \A x \in 1..(u - 1) :
                        parseField([heap EXCEPT ![u].options = <<o1, x>>],
                                   u, c[1], c[2], Undef) = got
    /\ Translated => \A n \in Nodes : heap[n].enhanced => n \in RootReach

\* C8 witness: a union of a string and an unsupported node was translated to
\* the string's descriptor, the second option left as it was
C8_Witness ==
    /\ Succeeded
    /\ \E i \in RootEntries :
          LET u == RootMember(i) IN
          /\ zmAssert("Union", heap, u)
          /\ Len(heap[u].options) = 2
          /\ zmAssert("String", heap, heap[u].options[1])
          /\ zmType(heap, heap[u].options[2]) = ""
          /\ ~heap[heap[u].options[2]].enhanced
          /\ FieldFor(RootKey(i)).type = "String"

\* C9: when a node the translation reaches has a kind without translation
\* rule the call throws, and a call that does not throw returns a map with no
\* null or hole in it, at any depth.
C9_UnsupportedKindThrows ==
    Translated =>
        /\ (\E n \in RootReach : zmType(heap, n) = "") => IsThrow(result)
        /\ ~IsThrow(result) => (IsObjectMap(result) /\ NoHole(result))

\* C9 witness: a translation threw for an unsupported node lying under a
\* supported member
C9_Witness ==
    /\ Translated
    /\ IsThrow(result)
    /\ \E i \in RootEntries :
          /\ zmType(heap, RootMember(i)) # ""
          /\ \E n \in Reach(heap, RootMember(i)) : zmType(heap, n) = ""

---------------------------------------------------------------------------
(* C10: registration.                                                      *)

\* C10: once extendZod has been called, whatever the number of calls, the
\* prototypes carry exactly what the first call installed: its unique and
\* sparse functions on String / Number / Date and the tags of TypesMap.
C10_RegistrationIdempotent ==
    extendCalls >= 1 =>
        /\ zod_extended
        /\ protoUnique = PatchedPrototypes(NoPrototypes, 1)
        /\ protoSparse = PatchedPrototypes(NoPrototypes, 1)
        /\ protoType = TaggedPrototypes([c \in ZodClasses |-> ""])

\* C10 witness: extendZod was called again and the methods are in use
C10_Witness ==
    /\ extendCalls >= 2
    /\ \E n \in Nodes : IsDef(heap[n].unique) /\ heap[n].enhanced

---------------------------------------------------------------------------
(* C11: augmentation is idempotent.                                        *)

\* C11: whatever number of times a node was enhanced (by unique / sparse, by
\* translations reaching it), its refine is wrapped exactly once; enhancing
\* it again changes nothing; and one refine call on it adds one check, the
\* library's, carrying one validator record when the node is enhanced.
C11_AugmentationIdempotent ==
    \A n \in Nodes :
        LET x == heap[n] IN
        /\ x.wraps = IF x.enhanced THEN 1 ELSE 0
        /\ enhanceZodInstance(enhanceZodInstance(x)) = enhanceZodInstance(x)
        /\ x.enhanced => enhanceZodInstance(x) = x
        /\ \A c \in RefineChoices :
              LET r == callRefine(x, x.wraps, c[1], c[2])
                  k == Len(x.checks)
              IN  /\ Len(r.checks) = k + 1
                  /\ SubSeq(r.checks, 1, k) = x.checks
                  /\ r.checks[k + 1].fn = c[1]
                  /\ r.checks[k + 1].zm =
                        IF x.enhanced
                        THEN Some(Validator(c[1], OptsMessage(c[2])))
                        ELSE Undef
                  /\ r.wraps = IF x.enhanced THEN 1 ELSE 0

\* C11 witness: a string enhanced by unique(), by sparse() and by a
\* translation that reached it, and refined afterwards
C11_Witness ==
    /\ Succeeded
    /\ \E n \in RootReach :
          /\ IsDef(heap[n].unique) /\ IsDef(heap[n].sparse)
          /\ heap[n].enhanced
          /\ Len(heap[n].checks) = 0
          /\ \E m \in Nodes :
                /\ m > n
                /\ Len(heap[m].checks) = 1
                /\ IsDef(heap[m].checks[1].zm)

---------------------------------------------------------------------------
(* C12: bare primitives are required by default.                           *)

\* the type tag of the descriptor of a primitive class
PrimitiveTag(cls) ==
    CASE cls = "ZodString" -> "String"
      [] cls = "ZodNumber" -> "Number"
      [] cls = "ZodDate" -> "Date"
      [] cls = "ZodBoolean" -> "Boolean"

\* C12: a string, number, date or boolean that is a direct member of the
\* root object translates to a descriptor of its type with required = true
\* and no default; its unique / sparse are false when the node carries no
\* such attribute (and the attribute's value when it does).
C12_BarePrimitiveRequired ==
    Translated =>
        \A i \in RootEntries :
            LET m == RootMember(i) IN
            heap[m].cls \in PrimitiveClasses =>
                /\ Succeeded
                /\ LET d == FieldFor(RootKey(i)) IN
                   /\ IsDesc(d)
                   /\ d.type = PrimitiveTag(heap[m].cls)
                   /\ d.required = TRUE
                   /\ d.default = Undef
                   /\ heap[m].cls # "ZodBoolean" =>
                         /\ d.unique = IF IsDef(heap[m].unique)
                                       THEN Val(heap[m].unique) ELSE FALSE
                         /\ d.sparse = IF IsDef(heap[m].sparse)
                                       THEN Val(heap[m].sparse) ELSE FALSE

\* C12 witness: a bare date without attributes was translated next to a
\* wrapped one
C12_Witness ==
    /\ Succeeded
    /\ Len(lastRoot) = 2
    /\ \E i \in RootEntries :
          /\ heap[RootMember(i)].cls = "ZodDate"
          /\ heap[RootMember(i)].unique = Undef
          /\ heap[RootMember(i)].sparse = Undef
          /\ FieldFor(RootKey(i)).required = TRUE
          /\ FieldFor(RootKey(i)).unique = FALSE
    /\ \E i \in RootEntries : heap[RootMember(i)].cls \in WrapperClasses

---------------------------------------------------------------------------
(* C13: which refinement the descriptor carries.                           *)

\* C13: when the checks of a translated primitive hold several custom
\* validators, the descriptor's validator is the predicate of the check
\* added last.
C13_LastRefinementWins ==
    Succeeded =>
        \A i \in RootEntries :
            LET P == ChainLeaf(heap, RootMember(i))
                checks == heap[P].checks
                d == FieldFor(RootKey(i))
            IN  ( /\ heap[P].cls \in {"ZodString", "ZodNumber", "ZodDate"}
                  /\ Len(checks) >= 2
                  /\ \A j \in 1..Len(checks) : checks[j].ctype = "custom" )
                => /\ IsDef(d.validate)
                   /\ Val(d.validate).validator = checks[Len(checks)].fn

---------------------------------------------------------------------------
(* C14: foreign identifiers.                                               *)

\* One zId / zUUID instance is built, given attributes through its own
\* methods, wrapped and translated.
NextIds ==
    \/ Building /\ Top = 0 /\ ZId(MaxIdNodes)
    \/ Building /\ Top = 0 /\ ZUUID(MaxIdNodes)
    \/ Building /\ Unique(BOOLEAN)
    \/ Building /\ Sparse(BOOLEAN)
    \/ Building /\ SetRef
    \/ Building /\ SetRefPath
    \/ Building /\ Wrap(MaxIdNodes)
    \/ Building /\ Translate

SpecIds == InitExtended /\ [][NextIds]_vars

\* the descriptor of the identifier P under the wrappers of member m carries
\* P's own attributes
CarriesOwnAttributes(m, P, d) ==
    /\ IsDesc(d)
    /\ d.type = zmType(heap, P)
    /\ d.ref = heap[P].ref
    /\ d.refPath = heap[P].refPath
    /\ d.unique = (IF IsDef(heap[P].unique) THEN Val(heap[P].unique) ELSE FALSE)
    /\ d.sparse = (IF IsDef(heap[P].sparse) THEN Val(heap[P].sparse) ELSE FALSE)
    /\ d.required = ~( \/ ChainHas(heap, m, "ZodOptional")
                       \/ ChainHas(heap, m, "ZodNullable") )

\* C14: the descriptor of a zId / zUUID node carries the node's own ref,
\* refPath, unique and sparse (false when unset), for every combination of
\* them, and the required flag of its context.
C14_IdentifierAttributes ==
    Succeeded =>
        \A i \in RootEntries :
            LET m == RootMember(i)
                P == ChainLeaf(heap, m)
            IN  zmType(heap, P) \in {"ObjectId", "UUID"} =>
                    CarriesOwnAttributes(m, P, FieldFor(RootKey(i)))

\* C14, the ObjectId half: the same for zId nodes alone
C14_ObjectIdAttributes ==
    Succeeded =>
        \A i \in RootEntries :
            LET m == RootMember(i)
                P == ChainLeaf(heap, m)
            IN  zmType(heap, P) = "ObjectId" =>
                    CarriesOwnAttributes(m, P, FieldFor(RootKey(i)))

---------------------------------------------------------------------------
(* C15 - C16: pipes.                                                       *)

\* the contexts a pipe is translated in: <<required, default, validator>>
PipeContexts ==
    BOOLEAN \X {Undef, Some("d1")} \X {Undef, Some(Validator("p1", Some("m1")))}

\* the side the claim says is translated: out for a preprocess (in is a
\* transform and out is not), in otherwise
ChosenSide(h, p) ==
    IF /\ h[p].in # 0 /\ h[h[p].in].cls = "ZodTransform"
       /\ h[p].out # 0 /\ h[h[p].out].cls # "ZodTransform"
    THEN h[p].out ELSE h[p].in

\* C15: in every context a pipe translates to what its chosen side
\* translates to in that same context (required flag, default provider and
\* validator unchanged): the output side for a preprocess, the input side
\* in every other case.
C15_PipeSideSelection ==
    \A p \in Nodes, c \in PipeContexts :
        zmAssert("Pipe", heap, p) =>
            LET side == parseField(heap, ChosenSide(heap, p), c[1], c[2], c[3])
                got == parseField(heap, p, c[1], c[2], c[3])
            IN  /\ got.d = side.d
                /\ got.e = {p} \cup side.e

\* C15 witness: a preprocess pipe (transform, then string) was translated
\* to the descriptor of its output side
C15_Witness ==
    /\ Succeeded
    /\ \E i \in RootEntries :
          LET p == RootMember(i) IN
          /\ zmAssert("Pipe", heap, p)
          /\ heap[heap[p].in].cls = "ZodTransform"
          /\ heap[heap[p].out].cls = "ZodString"
          /\ FieldFor(RootKey(i)).type = "String"
          /\ FieldFor(RootKey(i)).required = TRUE

\* Strings, numbers and transforms are built, marked unique / sparse, piped
\* and translated.
NextPipe ==
    \/ Building /\ ZString(MaxPipeNodes)
    \/ Building /\ ZNumber(MaxPipeNodes)
    \/ Building /\ ZTransform(MaxPipeNodes)
    \/ Building /\ Unique({TRUE})
    \/ Building /\ Sparse({TRUE})
    \/ Building /\ ZPipe(MaxPipeNodes)
    \/ Building /\ Translate

SpecPipe == InitExtended /\ [][NextPipe]_vars

\* the value of attribute a ("unique" or "sparse") the sides of pipe p
\* carry: that of the one side that has it set, undefined when none or both
CarriedBySide(p, a) ==
    LET i == heap[p].in
        o == heap[p].out
    IN  IF IsDef(heap[i][a]) /\ ~IsDef(heap[o][a]) THEN heap[i][a]
        ELSE IF IsDef(heap[o][a]) /\ ~IsDef(heap[i][a]) THEN heap[o][a]
        ELSE Undef

\* a pipe of two plain nodes
PlainPipe(p) ==
    /\ zmAssert("Pipe", heap, p)
    /\ heap[heap[p].in].cls # "ZodPipe"
    /\ heap[heap[p].out].cls # "ZodPipe"

\* C16: the descriptor of a translated pipe has the unique and the sparse
\* that one of its sides carries, whether or not that side is the one the
\* descriptor was made from.
C16_PipeCarriesSideAttributes ==
    Succeeded =>
        \A i \in RootEntries :
            LET p == RootMember(i)
                d == FieldFor(RootKey(i))
            IN  PlainPipe(p) =>
                    /\ IsDef(CarriedBySide(p, "unique")) =>
                          d.unique = Val(CarriedBySide(p, "unique"))
                    /\ IsDef(CarriedBySide(p, "sparse")) =>
                          d.sparse = Val(CarriedBySide(p, "sparse"))

\* C16, what the pipe rule does: the descriptor has the unique and sparse
\* of the side it was made from, false when that side carries none
C16_ChosenSideAttributes ==
    Succeeded =>
        \A i \in RootEntries :
            LET p == RootMember(i)
                d == FieldFor(RootKey(i))
                side == heap[ChosenSide(heap, p)]
            IN  PlainPipe(p) =>
                    /\ d.unique = (IsDef(side.unique) /\ Val(side.unique))
                    /\ d.sparse = (IsDef(side.sparse) /\ Val(side.sparse))

---------------------------------------------------------------------------
(* C17: attributes through chains of refinements.                          *)

\* A string is built, marked unique / sparse with either value and refined,
\* in any order, and what was built is translated.
NextMark ==
    \/ Building /\ Top = 0 /\ ZString(MaxMarkNodes)
    \/ Building /\ Unique(BOOLEAN)
    \/ Building /\ Sparse(BOOLEAN)
    \/ Building /\ Refine(MaxMarkNodes)
    \/ Building /\ Translate

SpecMark == InitExtended /\ [][NextMark]_vars

\* r is what the library's refine returns for x, with metadata only added:
\* the attributes of x, the mark and the wrapper, the validator record
RefinedWithMetadata(x, r, c) ==
    /\ r.unique = x.unique
    /\ r.sparse = x.sparse
    /\ r.enhanced
    /\ r.wraps = 1
    /\ [r EXCEPT !.unique = Undef, !.sparse = Undef, !.enhanced = FALSE,
                 !.wraps = 0, !.checks[Len(r.checks)].zm = Undef]
          = zodRefine(x, c[1], c[2])

\* the descriptor of node r as a direct member of an object
Alone(r) == parseField(Append(heap, r), Len(heap) + 1, TRUE, Undef, Undef).d

\* C17: for an enhanced node with unique u and sparse s (each unset, true or
\* false), the node one refine call returns, and the node a second refine
\* call on that one returns, carry u and s, are enhanced, are otherwise
\* what the library's refine returns, and translate to unique = u and
\* sparse = s (false when unset).
C17_RefineCopiesAttributes ==
    \A n \in Nodes :
        (heap[n].enhanced /\ heap[n].cls = "ZodString") =>
            LET x == heap[n]
                u == x.unique
                s == x.sparse
            IN
            \A c1 \in RefineChoices, c2 \in RefineChoices :
                LET r1 == callRefine(x, x.wraps, c1[1], c1[2])
                    r2 == callRefine(r1, r1.wraps, c2[1], c2[2])
                IN  /\ RefinedWithMetadata(x, r1, c1)
                    /\ RefinedWithMetadata(r1, r2, c2)
                    /\ r2.unique = u /\ r2.sparse = s
                    /\ Alone(r1).unique = (IsDef(u) /\ Val(u))
                    /\ Alone(r1).sparse = (IsDef(s) /\ Val(s))
                    /\ Alone(r2).unique = (IsDef(u) /\ Val(u))
                    /\ Alone(r2).sparse = (IsDef(s) /\ Val(s))

\* C17 witness: a string marked unique(true) and sparse(false), then refined
\* twice, was translated, unique and not sparse
C17_Witness ==
    /\ Succeeded
    /\ \E i \in RootEntries :
          LET P == RootMember(i) IN
          /\ heap[P].cls = "ZodString"
          /\ Len(heap[P].checks) = 2
          /\ IsDef(heap[P].checks[1].zm) /\ IsDef(heap[P].checks[2].zm)
          /\ heap[P].unique = Some(TRUE) /\ heap[P].sparse = Some(FALSE)
          /\ heap[1].unique = Some(TRUE) /\ heap[1].sparse = Some(FALSE)
          /\ heap[P].enhanced
          /\ FieldFor(RootKey(i)).unique = TRUE
          /\ FieldFor(RootKey(i)).sparse = FALSE

---------------------------------------------------------------------------
(* C18: what a translation changes.                                        *)

\* node after is node before, but for the mark and the wrapper when before
\* was not enhanced
OnlyEnhanced(before, after) ==
    /\ [after EXCEPT !.enhanced = before.enhanced, !.wraps = before.wraps]
          = before
    /\ before.enhanced => after = before
    /\ ~before.enhanced => (after = before \/ (after.enhanced /\ after.wraps = 1))

\* C18: a translation call leaves the nodes as they were (kind, constraints,
\* inner nodes, attributes, validator records), but for the mark and the
\* refine wrapper put on the nodes that had none; translating the same root
\* again returns the same.
C18_TranslationFrame ==
    [][ result' # NoResult =>
          /\ Len(heap') = Len(heap)
          /\ \A n \in Nodes : OnlyEnhanced(heap[n], heap'[n])
          /\ zodSchemaRaw(heap', lastRoot').d = result' ]_vars

\* C18 witness: a translation has gone through a wrapper it enhanced and a
\* refined string that carries attributes and a validator record
C18_Witness ==
    /\ Succeeded
    /\ \E m \in RootReach, n \in RootReach :
          /\ heap[m].cls = "ZodOptional" /\ heap[m].enhanced
          /\ heap[n].cls = "ZodString"
          /\ heap[n].unique = Some(TRUE)
          /\ Len(heap[n].checks) > 0
          /\ IsDef(heap[n].checks[1].zm)

---------------------------------------------------------------------------
(* C19: unions, maps and objects cut the inherited context.                *)

\* the translation of node n as if it stood alone: required, no default,
\* no validator
Bare(n) == parseField(heap, n, TRUE, Undef, Undef).d

\* C19: whatever required flag, default provider and validator a union, a
\* map / record or an object is translated with, the union's first option
\* and the map's value are translated as required, without default and
\* without validator, and the object's members as the members of a root
\* object are; the map descriptor itself keeps the flag and default given.
C19_CompositesCutContext ==
    \A n \in Nodes, c \in PipeContexts :
        LET got == parseField(heap, n, c[1], c[2], c[3]).d IN
        /\ (zmAssert("Union", heap, n) /\ Len(heap[n].options) > 0) =>
              got = Bare(heap[n].options[1])
        /\ zmAssert("MapOrRecord", heap, n) =>
              IF IsDesc(Bare(heap[n].valueType)) \/ IsObjectMap(Bare(heap[n].valueType))
              THEN got = [ k |-> "desc", type |-> "Map",
                           of |-> Bare(heap[n].valueType),
                           default |-> c[2], required |-> c[1] ]
              ELSE IsThrow(got)
        /\ zmAssert("Object", heap, n) =>
              /\ got = parseObject(heap, n).d
              /\ IsObjectMap(got) =>
                    \A j \in 1..Len(heap[n].shape) :
                        got.fields[j][2] = Bare(heap[n].shape[j][2])

\* C19 witness: an optional map of strings was translated: the map is not
\* required, its value is
C19_Witness ==
    /\ Succeeded
    /\ \E i \in RootEntries :
          LET m == RootMember(i)
              d == FieldFor(RootKey(i))
          IN  /\ heap[m].cls = "ZodOptional"
              /\ zmAssert("MapOrRecord", heap, heap[m].innerType)
              /\ d.type = "Map"
              /\ d.required = FALSE
              /\ d.of.type = "String"
              /\ d.of.required = TRUE

=============================================================================
